---- MODULE Spec2Model ----
(***************************************************************************)
(* Model of the three report scripts of polymarket-arb-research:           *)
(*   scripts/efficiency_heatmap.py, scripts/price_convergence.py and       *)
(*   scripts/signal_analysis.py.                                           *)
(* Each script is one main() that opens a SQLite connection, issues its    *)
(* queries, closes the connection and prints.  A run is modelled as the    *)
(* sequence of the statements of main(); an uncaught Python exception ends *)
(* the run in pc = "failed" with the exception's name in failure.          *)
(*                                                                         *)
(* Units: prices and gaps are integers in cents (price 0.40 is 40), the    *)
(* spread feature is an integer in thousandths (0.05 is 50), timestamps    *)
(* are minutes.  Averages are exact fractions [num, den].  A table of the  *)
(* store is a sequence of rows; a row of market_snapshots carries a        *)
(* multiplicity, copies, so that more than 1000 rows of one market fit.    *)
(***************************************************************************)
EXTENDS Integers, Sequences, FiniteSets, TLC

VARIABLES
    script,            \* which main() runs
    storeOk,           \* whether sqlite3.connect(DB_PATH) can open the store
    market_snapshots,  \* table market_snapshots
    markets,           \* table markets: the set of ids present
    signals,           \* table signals
    pc,                \* position in main()
    conn,              \* "none" | "open" | "closed"
    trace,             \* store events in order: "connect", "query", "close"
    stdout,            \* printed lines
    failure,           \* name of the uncaught exception, or "none"
    df,                \* efficiency: hourly series; convergence: price rows
    market,            \* convergence: the selected market id (0: none)
    all_signals,       \* signal report: rows with spread and tradeable
    tradeable_by_type, \* signal report: per-type tradeable_count / total
    table              \* signal report: the markdown table's data rows

vars == << script, storeOk, market_snapshots, markets, signals, pc, conn,
           trace, stdout, failure, df, market, all_signals,
           tradeable_by_type, table >>

(***************************************************************************)
(* Bounds of the model.                                                    *)
(***************************************************************************)
MaxSnapshots == 3
MaxBatches == 2
MaxSignals == 2
MaxSigSnapshots == 1

(***************************************************************************)
(* Program constants.                                                      *)
(***************************************************************************)
MinSnapshots == 1000
BandLow == 5
BandHigh == 95
SpreadLimit == 50
DefaultSpread == 1000
FeeCents == 2
FeeTotal == 98
QuestionMax == 80

(***************************************************************************)
(* Exact fractions.                                                        *)
(***************************************************************************)
Frac(n, d) == [num |-> n, den |-> d]

FracAdd(a, b) == Frac(a.num * b.den + b.num * a.den, a.den * b.den)

FracLt(a, b) == a.num * b.den < b.num * a.den

FracEq(a, b) == a.num * b.den = b.num * a.den

\* A printed line: a label and a value, or NaN.
Line(label, n, d) ==
    [label |-> label, key |-> "", num |-> n, den |-> d, nan |-> FALSE]

NaNLine(label) ==
    [label |-> label, key |-> "", num |-> 0, den |-> 1, nan |-> TRUE]

\* A printed line about one signal type.
TypeLine(label, type, n, d) ==
    [label |-> label, key |-> type, num |-> n, den |-> d, nan |-> FALSE]

Min2(a, b) == IF a < b THEN a ELSE b

Max2(a, b) == IF a > b THEN a ELSE b

BoundedSeq(S, n) == UNION { [1..k -> S] : k \in 0..n }

(***************************************************************************)
(* The store connection and the ways a run ends.                           *)
(***************************************************************************)
\* sqlite3.connect(DB_PATH): raises sqlite3.OperationalError when the store
\* cannot be opened; nothing of main() catches it.
Connect ==
    /\ pc = "connect"
    /\ IF storeOk
         THEN /\ conn' = "open"
              /\ trace' = Append(trace, "connect")
              /\ pc' = "query"
              /\ failure' = failure
         ELSE /\ pc' = "failed"
              /\ failure' = "OperationalError"
              /\ UNCHANGED << conn, trace >>
    /\ UNCHANGED << script, storeOk, market_snapshots, markets, signals,
                    stdout, df, market, all_signals, tradeable_by_type,
                    table >>

(***************************************************************************)
(* scripts/efficiency_heatmap.py                                           *)
(***************************************************************************)
\* The filter written with >= lets a zero quote through.
valid_quote_nonneg(s) == s.price_yes >= 0 /\ s.price_no >= 0

\* WHERE price_yes > 0 AND price_no > 0
valid_quote(s) == s.price_yes > 0 /\ s.price_no > 0

\* (1.0 - (price_yes + price_no)) * 100, in cents
gap_cents(s) == 100 - (s.price_yes + s.price_no)

\* strftime('%Y-%m-%d %H:00', timestamp): the timestamp cut to its hour
hour_of(ts) == ts - (ts % 60)

\* One group of GROUP BY hour, opened by its first row.
first_of_hour(s) ==
    [ hour    |-> hour_of(s.timestamp),
      samples |-> s.copies,
      gap_sum |-> s.copies * gap_cents(s),
      min_gap |-> gap_cents(s),
      max_gap |-> gap_cents(s) ]

\* COUNT(*), AVG (kept as gap_sum / samples), MIN and MAX take one more row.
add_to_hour(g, s) ==
    [ hour    |-> g.hour,
      samples |-> g.samples + s.copies,
      gap_sum |-> g.gap_sum + s.copies * gap_cents(s),
      min_gap |-> Min2(g.min_gap, gap_cents(s)),
      max_gap |-> Max2(g.max_gap, gap_cents(s)) ]

\* FROM market_snapshots WHERE ... GROUP BY hour: one pass over the rows.
RECURSIVE group_by_hour(_, _)
group_by_hour(rows, groups) ==
    IF rows = << >> THEN groups
    ELSE LET s == Head(rows)
             h == hour_of(s.timestamp)
         IN  IF ~valid_quote(s) THEN group_by_hour(Tail(rows), groups)
             ELSE IF h \in DOMAIN groups
               THEN group_by_hour(Tail(rows),
                        [groups EXCEPT ![h] = add_to_hour(@, s)])
               ELSE group_by_hour(Tail(rows),
                        groups @@ (h :> first_of_hour(s)))

\* ORDER BY hour
RECURSIVE order_by_hour(_)
order_by_hour(groups) ==
    IF DOMAIN groups = {} THEN << >>
    ELSE LET h == CHOOSE x \in DOMAIN groups :
                      \A y \in DOMAIN groups : x <= y
         IN  << groups[h] >> \o
             order_by_hour([k \in DOMAIN groups \ {h} |-> groups[k]])

\* The hourly query of efficiency_heatmap.py.
hourly_query(rows) == order_by_hour(group_by_hour(rows, << >>))

avg_gap_cents(e) == Frac(e.gap_sum, e.samples)

RECURSIVE sum_avg_gap(_)
sum_avg_gap(series) ==
    IF series = << >> THEN Frac(0, 1)
    ELSE FracAdd(avg_gap_cents(Head(series)), sum_avg_gap(Tail(series)))

RECURSIVE max_of_max_gap(_)
max_of_max_gap(series) ==
    IF Len(series) = 1 THEN series[1].max_gap
    ELSE Max2(Head(series).max_gap, max_of_max_gap(Tail(series)))

hours_below_fee(series) ==
    Cardinality({ i \in DOMAIN series :
                    FracLt(avg_gap_cents(series[i]), Frac(FeeCents, 1)) })

\* The lines from '--- Efficiency Summary ---' on.  On an empty frame
\* pandas' mean() and max() are NaN and the numpy division 0 / 0 is NaN.
efficiency_summary(series) ==
    IF series = << >>
      THEN << Line("--- Efficiency Summary ---", 0, 1),
              Line("Total hours", 0, 1),
              NaNLine("Avg gap"),
              NaNLine("Max gap observed"),
              NaNLine("% of hours with gap < 2c") >>
      ELSE << Line("--- Efficiency Summary ---", 0, 1),
              Line("Total hours", Len(series), 1),
              Line("Avg gap", sum_avg_gap(series).num,
                   sum_avg_gap(series).den * Len(series)),
              Line("Max gap observed", max_of_max_gap(series), 1),
              Line("% of hours with gap < 2c",
                   100 * hours_below_fee(series), Len(series)) >>

eh_query ==
    /\ script = "efficiency_heatmap"
    /\ pc = "query"
    /\ df' = hourly_query(market_snapshots)
    /\ trace' = Append(trace, "query")
    /\ pc' = "close"
    /\ UNCHANGED << script, storeOk, market_snapshots, markets, signals,
                    conn, stdout, failure, market, all_signals,
                    tradeable_by_type, table >>

eh_close ==
    /\ script = "efficiency_heatmap"
    /\ pc = "close"
    /\ conn' = "closed"
    /\ trace' = Append(trace, "close")
    /\ pc' = "render"
    /\ UNCHANGED << script, storeOk, market_snapshots, markets, signals,
                    stdout, failure, df, market, all_signals,
                    tradeable_by_type, table >>

\* Lines 39-82: the figure is built, the output directory made and the
\* image saved.  Any of these calls can raise (no display backend, the
\* output path not writable); main() catches nothing.
eh_render ==
    /\ script = "efficiency_heatmap"
    /\ pc = "render"
    /\ \/ /\ stdout' = Append(stdout, Line("Saved", 0, 1))
          /\ pc' = "summary"
          /\ failure' = failure
       \/ /\ pc' = "failed"
          /\ failure' = "RenderError"
          /\ stdout' = stdout
    /\ UNCHANGED << script, storeOk, market_snapshots, markets, signals,
                    conn, trace, df, market, all_signals,
                    tradeable_by_type, table >>

eh_summary ==
    /\ script = "efficiency_heatmap"
    /\ pc = "summary"
    /\ stdout' = stdout \o efficiency_summary(df)
    /\ pc' = "done"
    /\ UNCHANGED << script, storeOk, market_snapshots, markets, signals,
                    conn, trace, failure, df, market, all_signals,
                    tradeable_by_type, table >>

EffTimestamps == {59, 60}
EffPricesYes == {0, 40}
EffPricesNo == {0, 49, 59}

EffSnapshotRows ==
    [ market_id : {1}, timestamp : EffTimestamps, price_yes : EffPricesYes,
      price_no : EffPricesNo, volume_24h : {0}, copies : {1} ]

InitEfficiency ==
    /\ script = "efficiency_heatmap"
    /\ storeOk \in BOOLEAN
    /\ market_snapshots \in BoundedSeq(EffSnapshotRows, MaxSnapshots)
    /\ markets = {1}
    /\ signals = << >>
    /\ pc = "connect"
    /\ conn = "none"
    /\ trace = << >>
    /\ stdout = << >>
    /\ failure = "none"
    /\ df = << >>
    /\ market = 0
    /\ all_signals = << >>
    /\ tradeable_by_type = << >>
    /\ table = << >>

NextEfficiency == Connect \/ eh_query \/ eh_close \/ eh_render \/ eh_summary

SpecEfficiency == InitEfficiency /\ [][NextEfficiency]_vars

(***************************************************************************)
(* Properties of scripts/efficiency_heatmap.py                             *)
(***************************************************************************)
RECURSIVE SumOver(_, _)
SumOver(S, f) ==
    IF S = {} THEN 0
    ELSE LET x == CHOOSE y \in S : TRUE
         IN  f[x] + SumOver(S \ {x}, f)

\* The query of the run has returned.
Queried == \E i \in DOMAIN trace : trace[i] = "query"

RunEnded == pc \in {"done", "failed"}

\* Rows of market_snapshots with both prices above zero.
ValidRows ==
    { i \in DOMAIN market_snapshots :
        ~(market_snapshots[i].price_yes <= 0)
        /\ ~(market_snapshots[i].price_no <= 0) }

HourStart(i) == 60 * (market_snapshots[i].timestamp \div 60)

RowGap(i) ==
    100 - market_snapshots[i].price_yes - market_snapshots[i].price_no

RowCopies == [ i \in DOMAIN market_snapshots |-> market_snapshots[i].copies ]

RowGapTotal ==
    [ i \in DOMAIN market_snapshots |->
        market_snapshots[i].copies * RowGap(i) ]

RowsOfHour(h) == { i \in ValidRows : HourStart(i) = h }

\* C7: the hourly series has one entry per hour holding a valid snapshot, in
\* ascending hour order; an entry's sample count is the number of valid
\* snapshots of its hour and its mean, min and max are those of
\* 100 x (1 - price_yes - price_no) over exactly these snapshots; a
\* snapshot with price_yes <= 0 or price_no <= 0 is in no entry.
C7_HourlySeries ==
    (script = "efficiency_heatmap" /\ Queried) =>
        /\ Len(df) = Cardinality({ HourStart(i) : i \in ValidRows })
        /\ \A k \in DOMAIN df :
              /\ k > 1 => df[k - 1].hour < df[k].hour
              /\ RowsOfHour(df[k].hour) # {}
              /\ df[k].samples = SumOver(RowsOfHour(df[k].hour), RowCopies)
              /\ FracEq(avg_gap_cents(df[k]),
                        Frac(SumOver(RowsOfHour(df[k].hour), RowGapTotal),
                             SumOver(RowsOfHour(df[k].hour), RowCopies)))
              /\ \E i \in RowsOfHour(df[k].hour) : RowGap(i) = df[k].min_gap
              /\ \A i \in RowsOfHour(df[k].hour) : RowGap(i) >= df[k].min_gap
              /\ \E i \in RowsOfHour(df[k].hour) : RowGap(i) = df[k].max_gap
              /\ \A i \in RowsOfHour(df[k].hour) : RowGap(i) <= df[k].max_gap

\* An hour of two valid snapshots with different gaps beside an invalid one.
C7_Witness ==
    /\ script = "efficiency_heatmap"
    /\ Queried
    /\ Len(df) = 1
    /\ df[1].samples = 2
    /\ df[1].min_gap < df[1].max_gap
    /\ Len(market_snapshots) = 3

DerivedMetricLabels ==
    { "Avg gap", "Max gap observed", "% of hours with gap < 2c" }

\* C6: with no valid snapshot the analyzer's series is empty and the report
\* raises EmptyDataset: the run does not complete and no average gap,
\* maximum gap or percentage line is printed.
C6_EmptyDatasetRaised ==
    (script = "efficiency_heatmap" /\ ValidRows = {}) =>
        /\ df = << >>
        /\ pc # "done"
        /\ \A i \in DOMAIN stdout : stdout[i].label \notin DerivedMetricLabels

\* C10: the summary does not depend on rendering: a run whose queried
\* series is non-empty has printed its summary when it ends, also when
\* rendering or the image export failed.
C10_SummaryWithoutRendering ==
    (script \in {"efficiency_heatmap", "price_convergence"}
       /\ RunEnded /\ df # << >>) =>
        \E i \in DOMAIN stdout :
            stdout[i].label \in {"Total hours", "Snapshots"}

(***************************************************************************)
(* scripts/price_convergence.py                                            *)
(***************************************************************************)
\* WHERE s.price_yes > 0.05 AND s.price_yes < 0.95
in_band(s) == s.price_yes > BandLow /\ s.price_yes < BandHigh

\* The threshold written with >= keeps a market of exactly 1000 snapshots.
having_snapshots_ge(g) == g.snapshots >= MinSnapshots

\* HAVING snapshots > 1000
having_snapshots(g) == g.snapshots > MinSnapshots

\* One group of GROUP BY m.id, opened by its first row.
first_of_market(s) ==
    [ id         |-> s.market_id,
      snapshots  |-> s.copies,
      volume_sum |-> s.copies * s.volume_24h ]

\* COUNT(s.id) and AVG(s.volume_24h) (kept as volume_sum / snapshots) take
\* one more row.
add_to_market(g, s) ==
    [ id         |-> g.id,
      snapshots  |-> g.snapshots + s.copies,
      volume_sum |-> g.volume_sum + s.copies * s.volume_24h ]

\* FROM markets m JOIN market_snapshots s ON m.id = s.market_id WHERE ...
\* GROUP BY m.id: one pass over the rows.
RECURSIVE group_by_market(_, _, _)
group_by_market(ids, rows, groups) ==
    IF rows = << >> THEN groups
    ELSE LET s == Head(rows)
             m == s.market_id
         IN  IF ~(m \in ids /\ in_band(s))
               THEN group_by_market(ids, Tail(rows), groups)
             ELSE IF m \in DOMAIN groups
               THEN group_by_market(ids, Tail(rows),
                        [groups EXCEPT ![m] = add_to_market(@, s)])
               ELSE group_by_market(ids, Tail(rows),
                        groups @@ (m :> first_of_market(s)))

avg_volume(g) == Frac(g.volume_sum, g.snapshots)

\* ORDER BY avg_volume DESC LIMIT 1: a row no other row precedes.  SQLite
\* leaves the order of rows with equal avg_volume open, so every such row
\* can be the one returned.
order_by_volume_limit_1(rows) ==
    { g \in rows : \A o \in rows : ~FracLt(avg_volume(g), avg_volume(o)) }

\* The rows market_query can return: none, or one.
market_query(ids, rows) ==
    LET groups == group_by_market(ids, rows, << >>)
        kept   == { groups[m] : m \in { k \in DOMAIN groups :
                                          having_snapshots(groups[k]) } }
    IN  order_by_volume_limit_1(kept)

\* question[:80] + '...' if len(question) > 80 else question, as a length.
QuestionLen(id) == QuestionMax - 1 + id

shown_question_len(n) == IF n > QuestionMax THEN QuestionMax + 3 ELSE n

\* ORDER BY timestamp: insertion of each row behind the rows not after it.
RECURSIVE order_by_timestamp(_)
order_by_timestamp(rows) ==
    IF rows = << >> THEN << >>
    ELSE LET rest == order_by_timestamp(Tail(rows))
             s    == Head(rows)
             k    == Cardinality({ i \in DOMAIN rest :
                                     rest[i].timestamp < s.timestamp })
         IN  SubSeq(rest, 1, k) \o << s >> \o SubSeq(rest, k + 1, Len(rest))

is_of_market(s, id) == s.market_id = id

\* price_query: WHERE market_id = ? ORDER BY timestamp
price_query(rows, id) ==
    order_by_timestamp(SelectSeq(rows, LAMBDA s : is_of_market(s, id)))

total_cents(s) == s.price_yes + s.price_no

RECURSIVE frame_len(_)
frame_len(rows) ==
    IF rows = << >> THEN 0 ELSE Head(rows).copies + frame_len(Tail(rows))

RECURSIVE total_sum(_)
total_sum(rows) ==
    IF rows = << >> THEN 0
    ELSE Head(rows).copies * total_cents(Head(rows)) + total_sum(Tail(rows))

RECURSIVE total_min(_)
total_min(rows) ==
    IF Len(rows) = 1 THEN total_cents(rows[1])
    ELSE Min2(total_cents(Head(rows)), total_min(Tail(rows)))

RECURSIVE total_max(_)
total_max(rows) ==
    IF Len(rows) = 1 THEN total_cents(rows[1])
    ELSE Max2(total_cents(Head(rows)), total_max(Tail(rows)))

RECURSIVE below_fee_count(_)
below_fee_count(rows) ==
    IF rows = << >> THEN 0
    ELSE (IF total_cents(Head(rows)) < FeeTotal THEN Head(rows).copies ELSE 0)
         + below_fee_count(Tail(rows))

\* The lines from '--- Price Convergence Stats ---' on.  The magnitude of
\* the standard deviation is not kept; pandas' std() is NaN for one row.
convergence_stats(rows) ==
    << Line("--- Price Convergence Stats ---", 0, 1),
       Line("Snapshots", frame_len(rows), 1),
       Line("Avg total", total_sum(rows), frame_len(rows)),
       IF frame_len(rows) > 1 THEN Line("Std dev", 0, 1)
                              ELSE NaNLine("Std dev"),
       Line("Min total", total_min(rows), 1),
       Line("Max total", total_max(rows), 1),
       Line("% below $0.98", 100 * below_fee_count(rows), frame_len(rows)) >>

\* Lines 35-40: .iloc[0] of an empty frame raises IndexError; otherwise the
\* market's question and id are printed.
pc_market_query ==
    /\ script = "price_convergence"
    /\ pc = "query"
    /\ trace' = Append(trace, "query")
    /\ IF market_query(markets, market_snapshots) = {}
         THEN /\ pc' = "failed"
              /\ failure' = "IndexError"
              /\ UNCHANGED << market, stdout >>
         ELSE /\ \E g \in market_query(markets, market_snapshots) :
                    /\ market' = g.id
                    /\ stdout' = stdout \o
                         << Line("Using market",
                                 shown_question_len(QuestionLen(g.id)), 1),
                            Line("Market ID", g.id, 1) >>
              /\ pc' = "price_query"
              /\ failure' = failure
    /\ UNCHANGED << script, storeOk, market_snapshots, markets, signals,
                    conn, df, all_signals, tradeable_by_type, table >>

pc_price_query ==
    /\ script = "price_convergence"
    /\ pc = "price_query"
    /\ df' = price_query(market_snapshots, market)
    /\ trace' = Append(trace, "query")
    /\ pc' = "close"
    /\ UNCHANGED << script, storeOk, market_snapshots, markets, signals,
                    conn, stdout, failure, market, all_signals,
                    tradeable_by_type, table >>

pc_close ==
    /\ script = "price_convergence"
    /\ pc = "close"
    /\ conn' = "closed"
    /\ trace' = Append(trace, "close")
    /\ pc' = "render"
    /\ UNCHANGED << script, storeOk, market_snapshots, markets, signals,
                    stdout, failure, df, market, all_signals,
                    tradeable_by_type, table >>

\* Lines 58-108: the figure is built, the output directory made and the
\* image saved; any of these calls can raise and main() catches nothing.
pc_render ==
    /\ script = "price_convergence"
    /\ pc = "render"
    /\ \/ /\ stdout' = Append(stdout, Line("Saved", 0, 1))
          /\ pc' = "stats"
          /\ failure' = failure
       \/ /\ pc' = "failed"
          /\ failure' = "RenderError"
          /\ stdout' = stdout
    /\ UNCHANGED << script, storeOk, market_snapshots, markets, signals,
                    conn, trace, df, market, all_signals,
                    tradeable_by_type, table >>

pc_stats ==
    /\ script = "price_convergence"
    /\ pc = "stats"
    /\ stdout' = stdout \o convergence_stats(df)
    /\ pc' = "done"
    /\ UNCHANGED << script, storeOk, market_snapshots, markets, signals,
                    conn, trace, failure, df, market, all_signals,
                    tradeable_by_type, table >>

ConvMarketIds == {1, 2}
ConvPricesYes == {5, 50, 95}
ConvVolumes == {10, 20}
ConvCopies == {1, 1000, 1001}

ConvSnapshotRows ==
    [ market_id : ConvMarketIds, timestamp : {0}, price_yes : ConvPricesYes,
      price_no : {49}, volume_24h : ConvVolumes, copies : ConvCopies ]

InitConvergence ==
    /\ script = "price_convergence"
    /\ storeOk \in BOOLEAN
    /\ market_snapshots \in BoundedSeq(ConvSnapshotRows, MaxBatches)
    /\ markets \in { {1}, {1, 2} }
    /\ signals = << >>
    /\ pc = "connect"
    /\ conn = "none"
    /\ trace = << >>
    /\ stdout = << >>
    /\ failure = "none"
    /\ df = << >>
    /\ market = 0
    /\ all_signals = << >>
    /\ tradeable_by_type = << >>
    /\ table = << >>

NextConvergence ==
    Connect \/ pc_market_query \/ pc_price_query \/ pc_close \/ pc_render
       \/ pc_stats

SpecConvergence == InitConvergence /\ [][NextConvergence]_vars

(***************************************************************************)
(* scripts/signal_analysis.py                                              *)
(*                                                                         *)
(* A features_json text is kept by its parse: kind "invalid" is a text     *)
(* json.loads rejects (or a NULL column), "array" a JSON value that is no  *)
(* mapping, "object" a mapping whose spread entry is absent, a number (in  *)
(* thousandths), a string or null.                                         *)
(***************************************************************************)
KnownTypes == << "complement", "anchoring", "low_attention", "deadline" >>

Num(v) == [kind |-> "num", val |-> v]

\* json.loads(features_json): the parsed value, or ok = FALSE where it raises.
json_loads(text) ==
    IF text.kind = "invalid" THEN [ok |-> FALSE, value |-> text]
    ELSE [ok |-> TRUE, value |-> text]

\* features.get('spread', 1.0): raises AttributeError on a value that is no
\* mapping; returns the entry as it is, whatever its type, or 1.0 without one.
features_get_spread(value) ==
    IF value.kind # "object" THEN [ok |-> FALSE, value |-> Num(0)]
    ELSE IF value.spread_kind = "absent"
      THEN [ok |-> TRUE, value |-> Num(DefaultSpread)]
      ELSE [ok |-> TRUE,
            value |-> [kind |-> value.spread_kind, val |-> value.spread]]

\* try: ... except: return 1.0
get_spread(features_json) ==
    LET features == json_loads(features_json)
    IN  IF ~features.ok THEN Num(DefaultSpread)
        ELSE IF ~features_get_spread(features.value).ok
          THEN Num(DefaultSpread)
          ELSE features_get_spread(features.value).value

\* all_signals['spread'] < 0.05 raises TypeError when a str is compared.
comparison_raises(spread) == spread.kind = "str"

\* The comparison written with <= labels a spread of exactly 0.05 tradeable.
spread_at_most_limit(spread) ==
    spread.kind = "num" /\ spread.val <= SpreadLimit

\* spread < 0.05 for one element; None (NaN) compares False.
spread_below_limit(spread) == spread.kind = "num" /\ spread.val < SpreadLimit

\* Lines 71-72 for one row.
classify(row) ==
    [ signal_type   |-> row.signal_type,
      edge_estimate |-> row.edge_estimate,
      spread        |-> get_spread(row.features_json),
      tradeable     |-> spread_below_limit(get_spread(row.features_json)) ]

rows_of_type(rows, type) == SelectSeq(rows, LAMBDA r : r.signal_type = type)

RECURSIVE tradeable_sum(_)
tradeable_sum(rows) ==
    IF rows = << >> THEN 0
    ELSE (IF Head(rows).tradeable THEN 1 ELSE 0) + tradeable_sum(Tail(rows))

RECURSIVE edge_sum(_)
edge_sum(rows) ==
    IF rows = << >> THEN 0
    ELSE Head(rows).edge_estimate + edge_sum(Tail(rows))

\* groupby('signal_type').agg({'tradeable': ['sum', 'mean']}): one entry per
\* type that has a row (the mean is kept as tradeable_count / rows).
groupby_signal_type(rows) ==
    [ t \in { rows[i].signal_type : i \in DOMAIN rows } |->
        [ tradeable_count |-> tradeable_sum(rows_of_type(rows, t)),
          rows            |-> Len(rows_of_type(rows, t)) ] ]

\* Lines 17-27: the four row counts (the trades table is empty here).
sa_overview ==
    /\ script = "signal_analysis"
    /\ pc = "query"
    /\ trace' = Append(trace, "query")
    /\ stdout' = stdout \o
         << Line("=== DATA OVERVIEW ===", 0, 1),
            Line("market_snapshots", frame_len(market_snapshots), 1),
            Line("signals", Len(signals), 1),
            Line("markets", Cardinality(markets), 1),
            Line("trades", 0, 1) >>
    /\ pc' = "time_range"
    /\ UNCHANGED << script, storeOk, market_snapshots, markets, signals,
                    conn, failure, df, market, all_signals,
                    tradeable_by_type, table >>

RECURSIVE min_timestamp(_)
min_timestamp(rows) ==
    IF Len(rows) = 1 THEN rows[1].timestamp
    ELSE Min2(Head(rows).timestamp, min_timestamp(Tail(rows)))

RECURSIVE max_timestamp(_)
max_timestamp(rows) ==
    IF Len(rows) = 1 THEN rows[1].timestamp
    ELSE Max2(Head(rows).timestamp, max_timestamp(Tail(rows)))

\* Lines 30-39: MIN and MAX of an empty table are NULL, and
\* time_range["first_snapshot"][:19] subscripts None: TypeError.
sa_time_range ==
    /\ script = "signal_analysis"
    /\ pc = "time_range"
    /\ trace' = Append(trace, "query")
    /\ IF market_snapshots = << >>
         THEN /\ pc' = "failed"
              /\ failure' = "TypeError: 'NoneType' object is not subscriptable"
              /\ stdout' = stdout
         ELSE /\ stdout' = stdout \o
                   << Line("Time range from",
                           min_timestamp(market_snapshots), 1),
                      Line("Time range to",
                           max_timestamp(market_snapshots), 1),
                      Line("Duration",
                           max_timestamp(market_snapshots)
                             - min_timestamp(market_snapshots), 60) >>
              /\ pc' = "by_type"
              /\ failure' = failure
    /\ UNCHANGED << script, storeOk, market_snapshots, markets, signals,
                    conn, df, market, all_signals, tradeable_by_type,
                    table >>

\* ORDER BY count DESC over the groups of GROUP BY signal_type (the order
\* of types with equal counts is SQLite's; one order is taken here).
RECURSIVE order_by_count_desc(_, _)
order_by_count_desc(rows, types) ==
    IF types = {} THEN << >>
    ELSE LET t == CHOOSE x \in types : \A y \in types :
                      Len(rows_of_type(rows, x)) >= Len(rows_of_type(rows, y))
         IN  << TypeLine("count", t, Len(rows_of_type(rows, t)), 1),
                TypeLine("avg_edge", t, edge_sum(rows_of_type(rows, t)),
                         Len(rows_of_type(rows, t))) >>
             \o order_by_count_desc(rows, types \ {t})

\* Lines 42-55.
sa_signals_by_type ==
    /\ script = "signal_analysis"
    /\ pc = "by_type"
    /\ trace' = Append(trace, "query")
    /\ stdout' = stdout \o << Line("=== SIGNALS BY TYPE ===", 0, 1) >>
         \o order_by_count_desc(signals,
                { signals[i].signal_type : i \in DOMAIN signals })
    /\ pc' = "classify"
    /\ UNCHANGED << script, storeOk, market_snapshots, markets, signals,
                    conn, failure, df, market, all_signals,
                    tradeable_by_type, table >>

\* Lines 59-77: the rows are read, get_spread is applied to each, the
\* spread column is compared with 0.05 and the rows are grouped by type.
sa_classify ==
    /\ script = "signal_analysis"
    /\ pc = "classify"
    /\ trace' = Append(trace, "query")
    /\ IF \E i \in DOMAIN signals :
             comparison_raises(get_spread(signals[i].features_json))
         THEN /\ pc' = "failed"
              /\ failure' = "TypeError: '<' not supported"
              /\ UNCHANGED << all_signals, tradeable_by_type >>
         ELSE /\ all_signals' = [ i \in DOMAIN signals |-> classify(signals[i]) ]
              /\ tradeable_by_type' =
                   groupby_signal_type(
                       [ i \in DOMAIN signals |-> classify(signals[i]) ])
              /\ pc' = "tradability"
              /\ failure' = failure
    /\ UNCHANGED << script, storeOk, market_snapshots, markets, signals,
                    conn, stdout, df, market, table >>

\* One line of the loop of lines 80-85.
tradability_line(type) ==
    IF type \in DOMAIN tradeable_by_type
      THEN TypeLine("tradeable", type,
                    tradeable_by_type[type].tradeable_count,
                    tradeable_by_type[type].rows)
      ELSE TypeLine("0 signals detected", type, 0, 1)

\* Lines 88-94.
complement_lines ==
    LET complement == rows_of_type(all_signals, "complement")
    IN  << Line("=== COMPLEMENT ARBITRAGE ===", 0, 1),
           Line("Total opportunities found", Len(complement), 1) >>
        \o (IF Len(complement) > 0
              THEN << Line("Average edge", edge_sum(complement),
                           Len(complement)),
                      Line("Tradeable (spread < 5%)",
                           tradeable_sum(complement), 1) >>
              ELSE << >>)

\* Lines 79-94.
sa_tradability ==
    /\ script = "signal_analysis"
    /\ pc = "tradability"
    /\ stdout' = stdout \o << Line("=== TRADABILITY (spread < 5%) ===", 0, 1) >>
         \o [ k \in 1..Len(KnownTypes) |-> tradability_line(KnownTypes[k]) ]
         \o complement_lines
    /\ pc' = "efficiency"
    /\ UNCHANGED << script, storeOk, market_snapshots, markets, signals,
                    conn, trace, failure, df, market, all_signals,
                    tradeable_by_type, table >>

RECURSIVE gap_sum_of(_)
gap_sum_of(rows) ==
    IF rows = << >> THEN 0
    ELSE Head(rows).copies * gap_cents(Head(rows)) + gap_sum_of(Tail(rows))

RECURSIVE gap_min_of(_)
gap_min_of(rows) ==
    IF Len(rows) = 1 THEN gap_cents(rows[1])
    ELSE Min2(gap_cents(Head(rows)), gap_min_of(Tail(rows)))

RECURSIVE gap_max_of(_)
gap_max_of(rows) ==
    IF Len(rows) = 1 THEN gap_cents(rows[1])
    ELSE Max2(gap_cents(Head(rows)), gap_max_of(Tail(rows)))

RECURSIVE efficient_count(_)
efficient_count(rows) ==
    IF rows = << >> THEN 0
    ELSE (IF gap_cents(Head(rows)) < FeeCents THEN Head(rows).copies ELSE 0)
         + efficient_count(Tail(rows))

\* Lines 97-110: over no rows AVG, MIN, MAX and SUM(...) / COUNT(*) are
\* NULL, and formatting None with ':.3f' raises TypeError after the
\* section's header is printed.
sa_efficiency ==
    /\ script = "signal_analysis"
    /\ pc = "efficiency"
    /\ trace' = Append(trace, "query")
    /\ LET rows == SelectSeq(market_snapshots, valid_quote)
       IN  IF rows = << >>
             THEN /\ stdout' = Append(stdout,
                                      Line("=== MARKET EFFICIENCY ===", 0, 1))
                  /\ pc' = "failed"
                  /\ failure' = "TypeError: unsupported format string"
             ELSE /\ stdout' = stdout \o
                       << Line("=== MARKET EFFICIENCY ===", 0, 1),
                          Line("Average gap from $1.00", gap_sum_of(rows),
                               frame_len(rows)),
                          Line("Gap range from", gap_min_of(rows), 1),
                          Line("Gap range to", gap_max_of(rows), 1),
                          Line("% of snapshots with gap < 2c",
                               100 * efficient_count(rows),
                               frame_len(rows)) >>
                  /\ pc' = "close"
                  /\ failure' = failure
    /\ UNCHANGED << script, storeOk, market_snapshots, markets, signals,
                    conn, df, market, all_signals, tradeable_by_type,
                    table >>

sa_close ==
    /\ script = "signal_analysis"
    /\ pc = "close"
    /\ conn' = "closed"
    /\ trace' = Append(trace, "close")
    /\ pc' = "markdown"
    /\ UNCHANGED << script, storeOk, market_snapshots, markets, signals,
                    stdout, failure, df, market, all_signals,
                    tradeable_by_type, table >>

\* One data row of the loop of lines 118-125.
markdown_row(type) ==
    IF type \in DOMAIN tradeable_by_type
      THEN [ signal_type |-> type,
             count       |-> Len(rows_of_type(all_signals, type)),
             tradeable   |-> tradeable_by_type[type].tradeable_count,
             dash        |-> FALSE ]
      ELSE [ signal_type |-> type, count |-> 0, tradeable |-> 0,
             dash |-> TRUE ]

\* A loop that prints only the types present in the data.
markdown_rows_present_only ==
    SelectSeq([ k \in 1..Len(KnownTypes) |-> markdown_row(KnownTypes[k]) ],
              LAMBDA r : ~r.dash)

\* for signal_type in ['complement', 'anchoring', 'low_attention', 'deadline']
markdown_rows == [ k \in 1..Len(KnownTypes) |-> markdown_row(KnownTypes[k]) ]

\* Lines 115-125.
sa_markdown ==
    /\ script = "signal_analysis"
    /\ pc = "markdown"
    /\ stdout' = Append(stdout, Line("=== MARKDOWN TABLE FOR README ===", 0, 1))
    /\ table' = markdown_rows
    /\ pc' = "done"
    /\ UNCHANGED << script, storeOk, market_snapshots, markets, signals,
                    conn, trace, failure, df, market, all_signals,
                    tradeable_by_type >>

SigTypes == { "complement", "deadline", "momentum" }
SigSpreads == { 49, 50, 51 }

SigFeatures ==
    { [kind |-> "invalid", spread_kind |-> "absent", spread |-> 0],
      [kind |-> "array", spread_kind |-> "absent", spread |-> 0],
      [kind |-> "object", spread_kind |-> "absent", spread |-> 0],
      [kind |-> "object", spread_kind |-> "str", spread |-> 0],
      [kind |-> "object", spread_kind |-> "null", spread |-> 0] }
    \cup { [kind |-> "object", spread_kind |-> "num", spread |-> v] :
             v \in SigSpreads }

SigRows ==
    [ signal_type : SigTypes, features_json : SigFeatures,
      edge_estimate : {3} ]

SigSnapshotRows ==
    [ market_id : {1}, timestamp : {59}, price_yes : {0, 40},
      price_no : {59}, volume_24h : {0}, copies : {1} ]

InitSignal ==
    /\ script = "signal_analysis"
    /\ storeOk \in BOOLEAN
    /\ market_snapshots \in BoundedSeq(SigSnapshotRows, MaxSigSnapshots)
    /\ markets = {1}
    /\ signals \in BoundedSeq(SigRows, MaxSignals)
    /\ pc = "connect"
    /\ conn = "none"
    /\ trace = << >>
    /\ stdout = << >>
    /\ failure = "none"
    /\ df = << >>
    /\ market = 0
    /\ all_signals = << >>
    /\ tradeable_by_type = << >>
    /\ table = << >>

NextSignal ==
    Connect \/ sa_overview \/ sa_time_range \/ sa_signals_by_type
       \/ sa_classify \/ sa_tradability \/ sa_efficiency \/ sa_close
       \/ sa_markdown

SpecSignal == InitSignal /\ [][NextSignal]_vars

(***************************************************************************)
(* Properties of scripts/price_convergence.py                              *)
(***************************************************************************)
\* Rows of market m whose price_yes lies strictly between 0.05 and 0.95.
QualifyingRows(m) ==
    { i \in DOMAIN market_snapshots :
        /\ market_snapshots[i].market_id = m
        /\ 5 < market_snapshots[i].price_yes
        /\ market_snapshots[i].price_yes < 95 }

RowVolumeTotal ==
    [ i \in DOMAIN market_snapshots |->
        market_snapshots[i].copies * market_snapshots[i].volume_24h ]

QualifyingCount(m) == SumOver(QualifyingRows(m), RowCopies)

QualifyingVolume(m) == SumOver(QualifyingRows(m), RowVolumeTotal)

Qualifies(m) == m \in markets /\ QualifyingCount(m) > 1000

MarketQueried ==
    script = "price_convergence" /\ storeOk /\ pc \notin {"connect", "query"}

\* C4: when a market qualifies one is chosen; the chosen market has more
\* than 1000 snapshots with 0.05 < price_yes < 0.95, and no market with more
\* than 1000 such snapshots has a higher average volume_24h over them; a
\* market with 1000 or fewer is never chosen.
C4_MarketSelection ==
    MarketQueried =>
        /\ (\E m \in markets : Qualifies(m)) => market # 0
        /\ market # 0 =>
              /\ Qualifies(market)
              /\ \A m \in markets :
                    Qualifies(m) =>
                        QualifyingVolume(m) * QualifyingCount(market)
                          <= QualifyingVolume(market) * QualifyingCount(m)

\* Two markets qualify with different average volumes, and one is chosen.
C4_Witness ==
    /\ MarketQueried
    /\ market # 0
    /\ \E m \in markets :
          /\ m # market
          /\ Qualifies(m)
          /\ QualifyingVolume(m) * QualifyingCount(market)
               < QualifyingVolume(market) * QualifyingCount(m)

ConvergenceStatLabels ==
    { "Snapshots", "Avg total", "Std dev", "Min total", "Max total",
      "% below $0.98" }

\* C5: when no market has more than 1000 qualifying snapshots the selector
\* fails with NoQualifyingMarket, before a price series is queried or a
\* convergence statistic is printed, and no market is taken by default.
C5_NoQualifyingMarket ==
    (MarketQueried /\ \A m \in markets : ~Qualifies(m)) =>
        /\ failure = "NoQualifyingMarket"
        /\ market = 0
        /\ df = << >>
        /\ Cardinality({ i \in DOMAIN trace : trace[i] = "query" }) = 1
        /\ \A i \in DOMAIN stdout : stdout[i].label \notin ConvergenceStatLabels

\* C9: a run that opened the store has opened exactly one connection, has
\* issued every query after the open and before the close, and has closed
\* the connection when it ends, whether it completed or failed.
C9_ConnectionLifecycle ==
    (RunEnded /\ storeOk) =>
        /\ Cardinality({ i \in DOMAIN trace : trace[i] = "connect" }) = 1
        /\ Cardinality({ i \in DOMAIN trace : trace[i] = "close" }) = 1
        /\ trace[1] = "connect"
        /\ trace[Len(trace)] = "close"
        /\ conn = "closed"

(***************************************************************************)
(* Properties of scripts/signal_analysis.py                                *)
(***************************************************************************)
\* The features_json of signal i holds a numeric spread below 0.05.
SpreadBelowFivePercent(i) ==
    /\ signals[i].features_json.kind = "object"
    /\ signals[i].features_json.spread_kind = "num"
    /\ signals[i].features_json.spread < 50

\* The classifier has labelled the rows.
Classified ==
    /\ script = "signal_analysis"
    /\ pc \in {"tradability", "efficiency", "close", "markdown", "done"}

\* C1: every signal row is labelled, and it is labelled tradeable exactly
\* when the spread of its features_json is strictly below 0.05: 0.05 itself
\* and every larger spread give tradeable = false.
C1_TradeableIffBelowLimit ==
    /\ Classified => DOMAIN all_signals = DOMAIN signals
    /\ script = "signal_analysis" =>
          \A i \in DOMAIN all_signals :
              all_signals[i].tradeable <=> SpreadBelowFivePercent(i)

\* A row with a spread of exactly 0.05 beside a row below it.
C1_Witness ==
    /\ Classified
    /\ \E i, j \in DOMAIN all_signals :
          /\ all_signals[i].spread = Num(50)
          /\ ~all_signals[i].tradeable
          /\ all_signals[j].spread = Num(49)
          /\ all_signals[j].tradeable

\* features_json is no valid JSON, no mapping, has no spread, or has a
\* spread that is no number.
Unparseable(i) ==
    \/ signals[i].features_json.kind # "object"
    \/ signals[i].features_json.spread_kind # "num"

\* C2: a signal whose features_json cannot be parsed gets the spread 1.0, is
\* not tradeable and is counted in its type's total, and the classifier
\* raises nothing.
C2_UnparseableDefaults ==
    script = "signal_analysis" =>
        /\ failure # "TypeError: '<' not supported"
        /\ Classified => DOMAIN all_signals = DOMAIN signals
        /\ \A i \in DOMAIN all_signals :
              Unparseable(i) =>
                  /\ all_signals[i].spread = Num(1000)
                  /\ ~all_signals[i].tradeable
                  /\ all_signals[i].signal_type \in DOMAIN tradeable_by_type

SignalsOfType(t) == { i \in DOMAIN signals : signals[i].signal_type = t }

TradeableOfType(t) == { i \in SignalsOfType(t) : SpreadBelowFivePercent(i) }

\* C3: the printed markdown table has exactly 4 data rows, in the order
\* complement, anchoring, low_attention, deadline; a known type without
\* signals has count 0 and tradeable '-', a known type with signals its
\* count and tradeable count, and signals of other types add no row.
C3_MarkdownTable ==
    (script = "signal_analysis" /\ (pc = "done" \/ table # << >>)) =>
        /\ Len(table) = 4
        /\ table[1].signal_type = "complement"
        /\ table[2].signal_type = "anchoring"
        /\ table[3].signal_type = "low_attention"
        /\ table[4].signal_type = "deadline"
        /\ \A k \in 1..4 :
              /\ table[k].count = Cardinality(SignalsOfType(table[k].signal_type))
              /\ table[k].dash <=> SignalsOfType(table[k].signal_type) = {}
              /\ ~table[k].dash =>
                    table[k].tradeable =
                        Cardinality(TradeableOfType(table[k].signal_type))

\* A table printed for signals of a known type and of an unknown type,
\* while other known types have none.
C3_Witness ==
    /\ script = "signal_analysis"
    /\ pc = "done"
    /\ SignalsOfType("complement") # {}
    /\ SignalsOfType("momentum") # {}
    /\ SignalsOfType("deadline") = {}
    /\ Len(table) = 4
    /\ table[1].count = 1
    /\ table[4].dash

\* C8: an empty market_snapshots table does not keep the signal report from
\* producing its tradability and complement sections and its markdown
\* table.
C8_SignalSectionsSurvive ==
    (script = "signal_analysis" /\ storeOk /\ RunEnded
       /\ market_snapshots = << >>) =>
        /\ \E i \in DOMAIN stdout :
              stdout[i].label = "=== TRADABILITY (spread < 5%) ==="
        /\ \E i \in DOMAIN stdout :
              stdout[i].label = "=== COMPLEMENT ARBITRAGE ==="
        /\ Len(table) = 4

====
